---- MODULE Spec2Model ----
(***************************************************************************)
(* Validation schemas of the Example entity                                *)
(* (backend/app/schemas/m01_example_schema.py): ExampleBase, ExampleCreate,*)
(* ExampleUpdate and ExampleRead, with the pydantic v2 model validation    *)
(* that their field declarations and model_config select.                  *)
(*                                                                         *)
(* A value is a record [kind, n, c]:                                       *)
(*   str       n = length, c = the character the string repeats ("a" * n)  *)
(*   bool      n = 1 for True, 0 for False                                 *)
(*   int       n = the integer                                             *)
(*   datetime  n = the instant                                             *)
(*   none      Python None                                                 *)
(*   absent    marks a key or attribute that is not there (never a value   *)
(*             stored in a mapping or carried by a validated model)        *)
(* A mapping is a Python dict: a sequence of <<key, value>> pairs in       *)
(* insertion order with distinct keys.  A record-like object is a function *)
(* from attribute names to values.                                         *)
(***************************************************************************)
EXTENDS Integers, Sequences, FiniteSets, TLC

VARIABLES
    input,          \* the mapping handed to the constructors
    record,         \* an object exposing the same items as attributes
    createResult,   \* outcome of ExampleCreate(**input)
    updateResult,   \* outcome of ExampleUpdate(**input)
    readResult,     \* outcome of ExampleRead(**input)
    ormResult,      \* outcome of ExampleRead.model_validate(record)
    dumped,         \* createResult's model serialized back to a mapping
    reparsed        \* outcome of ExampleCreate(**dumped)

vars == <<input, record, createResult, updateResult, readResult, ormResult,
          dumped, reparsed>>

---------------------------------------------------------------------------
(* Values *)

Str(n, ch) == [kind |-> "str", n |-> n, c |-> ch]
Bool(b) == [kind |-> "bool", n |-> IF b THEN 1 ELSE 0, c |-> ""]
Integer(i) == [kind |-> "int", n |-> i, c |-> ""]
Datetime(t) == [kind |-> "datetime", n |-> t, c |-> ""]
None == [kind |-> "none", n |-> 0, c |-> ""]
Absent == [kind |-> "absent", n |-> 0, c |-> ""]

---------------------------------------------------------------------------
(* Field declarations *)

NameMinLength == 1
NameMaxLength == 100
DescriptionMaxLength == 500
UpdateNameMinLength == 1
UpdateNameMaxLength == 100
UpdateDescriptionMaxLength == 500

MinLength(k) == [c |-> "min_length", v |-> k]
MaxLength(k) == [c |-> "max_length", v |-> k]

\* Field(...): the annotation (type, Optional or not), whether the default is
\* Ellipsis (required), the default, and the length constraints.
Field(name, type, nullable, required, default, constraints) ==
    [name |-> name, type |-> type, nullable |-> nullable,
     required |-> required, default |-> default, constraints |-> constraints]

\* A base class whose description is annotated str instead of str | None.
ExampleBaseFieldsStrDescription ==
    << Field("name", "str", FALSE, TRUE, Absent,
             {MinLength(NameMinLength), MaxLength(NameMaxLength)}),
       Field("description", "str", FALSE, FALSE, None,
             {MaxLength(DescriptionMaxLength)}),
       Field("is_active", "bool", FALSE, FALSE, Bool(TRUE), {}) >>

\* A base class whose name has no max_length.
ExampleBaseFieldsNoMax ==
    << Field("name", "str", FALSE, TRUE, Absent, {MinLength(NameMinLength)}),
       Field("description", "str", TRUE, FALSE, None,
             {MaxLength(DescriptionMaxLength)}),
       Field("is_active", "bool", FALSE, FALSE, Bool(TRUE), {}) >>

\* A base class whose is_active defaults to False.
ExampleBaseFieldsInactive ==
    << Field("name", "str", FALSE, TRUE, Absent,
             {MinLength(NameMinLength), MaxLength(NameMaxLength)}),
       Field("description", "str", TRUE, FALSE, None,
             {MaxLength(DescriptionMaxLength)}),
       Field("is_active", "bool", FALSE, FALSE, Bool(FALSE), {}) >>

ExampleBaseFields ==
    << Field("name", "str", FALSE, TRUE, Absent,
             {MinLength(NameMinLength), MaxLength(NameMaxLength)}),
       Field("description", "str", TRUE, FALSE, None,
             {MaxLength(DescriptionMaxLength)}),
       Field("is_active", "bool", FALSE, FALSE, Bool(TRUE), {}) >>

\* class ExampleCreate(ExampleBase): pass
ExampleCreateFields == ExampleBaseFields

\* An update schema whose name default is the empty string.
ExampleUpdateFieldsEmptyDefault ==
    << Field("name", "str", TRUE, FALSE, Str(0, "a"),
             {MinLength(UpdateNameMinLength), MaxLength(UpdateNameMaxLength)}),
       Field("description", "str", TRUE, FALSE, None,
             {MaxLength(UpdateDescriptionMaxLength)}),
       Field("is_active", "bool", TRUE, FALSE, None, {}) >>

ExampleUpdateFields ==
    << Field("name", "str", TRUE, FALSE, None,
             {MinLength(UpdateNameMinLength), MaxLength(UpdateNameMaxLength)}),
       Field("description", "str", TRUE, FALSE, None,
             {MaxLength(UpdateDescriptionMaxLength)}),
       Field("is_active", "bool", TRUE, FALSE, None, {}) >>

\* A read schema that declares its six fields itself, without constraints.
ExampleReadFieldsUnvalidated ==
    << Field("name", "str", FALSE, TRUE, Absent, {}),
       Field("description", "str", TRUE, FALSE, None, {}),
       Field("is_active", "bool", FALSE, FALSE, Bool(TRUE), {}),
       Field("id", "int", FALSE, TRUE, Absent, {}),
       Field("created_at", "datetime", FALSE, TRUE, Absent, {}),
       Field("updated_at", "datetime", FALSE, TRUE, Absent, {}) >>

\* class ExampleRead(ExampleBase): the inherited fields, then its own.
ExampleReadFields ==
    ExampleBaseFields \o
    << Field("id", "int", FALSE, TRUE, Absent, {}),
       Field("created_at", "datetime", FALSE, TRUE, Absent, {}),
       Field("updated_at", "datetime", FALSE, TRUE, Absent, {}) >>

\* model_config.  ExampleCreate declares none: pydantic's defaults apply.
Config(extra, from_attributes) ==
    [extra |-> extra, from_attributes |-> from_attributes]

ExampleCreateConfigForbid == Config("forbid", FALSE)
ExampleCreateConfig == Config("ignore", FALSE)

ExampleUpdateConfigIgnore == Config("ignore", FALSE)
ExampleUpdateConfig == Config("forbid", FALSE)

ExampleReadConfigDictOnly == Config("ignore", FALSE)
ExampleReadConfig == Config("ignore", TRUE)

---------------------------------------------------------------------------
(* Input representations *)

\* dict.get(key, <absent>): the value stored under key, scanning the items.
DictGet(m, key) ==
    IF \E i \in 1..Len(m) : m[i][1] = key
    THEN m[CHOOSE i \in 1..Len(m) : m[i][1] = key][2]
    ELSE Absent

\* The keys of a dict, in insertion order.
DictKeys(m) == [i \in 1..Len(m) |-> m[i][1]]

\* getattr(obj, key, <absent>)
GetAttr(obj, key) == IF key \in DOMAIN obj THEN obj[key] ELSE Absent

FromDict(m) == [kind |-> "dict", dict |-> m, obj |-> <<>>]
FromObject(o) == [kind |-> "object", dict |-> <<>>, obj |-> o]

Lookup(src, key) ==
    IF src.kind = "dict" THEN DictGet(src.dict, key) ELSE GetAttr(src.obj, key)

---------------------------------------------------------------------------
(* Validation of one value (pydantic, lax mode) *)

Ok(v) == [err |-> "ok", out |-> v]
Err(e) == [err |-> e, out |-> Absent]

\* The length constraint a string violates, min_length first.
StrConstraints(f, v) ==
    IF \E k \in f.constraints : k.c = "min_length" /\ v.n < k.v
    THEN Err("string_too_short")
    ELSE IF \E k \in f.constraints : k.c = "max_length" /\ v.n > k.v
         THEN Err("string_too_long")
         ELSE Ok(v)

StrValidator(f, v) ==
    IF v.kind = "str" THEN StrConstraints(f, v) ELSE Err("string_type")

\* The strings of this model repeat one character: "a" * n and "b" * n spell
\* no boolean, integer or date; "1" * n spells the integer 1, 11, 111, ...,
\* and "1" itself spells True.
Repunit(n) == (10 ^ n - 1) \div 9
IsDigits(v) == v.kind = "str" /\ v.c = "1" /\ v.n >= 1

BoolValidator(f, v) ==
    CASE v.kind = "bool" -> Ok(v)
      [] v.kind = "int" /\ v.n \in {0, 1} -> Ok(Bool(v.n = 1))
      [] v.kind = "int" /\ v.n \notin {0, 1} -> Err("bool_parsing")
      [] v.kind = "str" /\ IsDigits(v) /\ v.n = 1 -> Ok(Bool(TRUE))
      [] v.kind = "str" /\ ~(IsDigits(v) /\ v.n = 1) -> Err("bool_parsing")
      [] OTHER -> Err("bool_type")

IntValidator(f, v) ==
    CASE v.kind = "int" -> Ok(v)
      [] v.kind = "bool" -> Ok(Integer(v.n))
      [] v.kind = "str" /\ IsDigits(v) -> Ok(Integer(Repunit(v.n)))
      [] v.kind = "str" /\ ~IsDigits(v) -> Err("int_parsing")
      [] OTHER -> Err("int_type")

\* An integer, also spelled as a string, is taken as Unix time.
DatetimeValidator(f, v) ==
    CASE v.kind = "datetime" -> Ok(v)
      [] v.kind = "int" -> Ok(Datetime(v.n))
      [] v.kind = "str" /\ IsDigits(v) -> Ok(Datetime(Repunit(v.n)))
      [] v.kind = "str" /\ ~IsDigits(v) -> Err("datetime_from_date_parsing")
      [] OTHER -> Err("datetime_type")

TypeValidator(f, v) ==
    CASE f.type = "str" -> StrValidator(f, v)
      [] f.type = "bool" -> BoolValidator(f, v)
      [] f.type = "int" -> IntValidator(f, v)
      [] f.type = "datetime" -> DatetimeValidator(f, v)

\* One field of a model: a missing key takes the default, unvalidated, or is
\* an error when the field is required; None passes an Optional annotation.
ValidateField(f, v) ==
    IF v = Absent
    THEN IF f.required THEN Err("missing") ELSE Ok(f.default)
    ELSE IF v = None /\ f.nullable THEN Ok(None) ELSE TypeValidator(f, v)

---------------------------------------------------------------------------
(* Validation of a model *)

FieldNames(fields) == {fields[i].name : i \in 1..Len(fields)}

ErrorEntry(loc, type) == [loc |-> loc, type |-> type]

\* One entry per failing field, in declaration order.
FieldErrors(fields, src) ==
    LET all == [i \in 1..Len(fields) |->
                  ErrorEntry(fields[i].name,
                             ValidateField(fields[i], Lookup(src, fields[i].name)).err)]
    IN  SelectSeq(all, LAMBDA e : e.type # "ok")

\* extra="forbid": one entry per key of the dict that is no field, in the
\* dict's order.  Attributes of an object are only read by field name.
ExtraErrors(fields, config, src) ==
    IF config.extra = "forbid" /\ src.kind = "dict"
    THEN LET keys == DictKeys(src.dict)
             unknown == SelectSeq(keys, LAMBDA k : k \notin FieldNames(fields))
         IN  [i \in 1..Len(unknown) |-> ErrorEntry(unknown[i], "extra_forbidden")]
    ELSE <<>>

\* The validated model: every declared field, and nothing else (extra="ignore"
\* and extra="forbid" both store no extra key).
ModelValue(fields, src) ==
    [n \in FieldNames(fields) |->
        LET f == fields[CHOOSE i \in 1..Len(fields) : fields[i].name = n]
        IN  ValidateField(f, Lookup(src, n)).out]

NoValue == [n \in {} |-> None]

Valid(v) == [status |-> "ok", value |-> v, errors |-> <<>>]
ValidationError(errs) == [status |-> "error", value |-> NoValue, errors |-> errs]
NoResult == [status |-> "none", value |-> NoValue, errors |-> <<>>]

\* A validation that raises on the first failing field.
ValidateModelFailFast(fields, config, src) ==
    LET errs == FieldErrors(fields, src) \o ExtraErrors(fields, config, src)
    IN  IF errs = <<>> THEN Valid(ModelValue(fields, src))
        ELSE ValidationError(<<Head(errs)>>)

\* All field errors are collected, then the forbidden extras; a model is
\* built only when there is none.
ValidateModel(fields, config, src) ==
    LET errs == FieldErrors(fields, src) \o ExtraErrors(fields, config, src)
    IN  IF errs = <<>> THEN Valid(ModelValue(fields, src))
        ELSE ValidationError(errs)

\* Model(**kwargs)
Construct(fields, config, kwargs) == ValidateModel(fields, config, FromDict(kwargs))

\* Model.model_validate(obj): an object that is no dict is read by attribute
\* only under from_attributes=True.
ModelValidate(fields, config, obj) ==
    IF config.from_attributes
    THEN ValidateModel(fields, config, FromObject(obj))
    ELSE ValidationError(<<ErrorEntry("", "model_type")>>)

\* model.model_dump(): the fields in declaration order.
ModelDump(fields, value) ==
    [i \in 1..Len(fields) |-> <<fields[i].name, value[fields[i].name]>>]

ExampleCreate(kwargs) == Construct(ExampleCreateFields, ExampleCreateConfig, kwargs)
ExampleUpdate(kwargs) == Construct(ExampleUpdateFields, ExampleUpdateConfig, kwargs)
ExampleRead(kwargs) == Construct(ExampleReadFields, ExampleReadConfig, kwargs)
ExampleReadModelValidate(obj) ==
    ModelValidate(ExampleReadFields, ExampleReadConfig, obj)

---------------------------------------------------------------------------
(* The inputs explored *)

MaxNameLen == 101
MaxDescLen == 501
MaxExtras == 2

Chars == {"a", "b"}

\* "a" * n and "b" * n for every length up to MaxNameLen.
SweepNames == {Str(n, ch) : n \in 0..MaxNameLen, ch \in Chars}

DescLens == {0, 1} \cup ((DescriptionMaxLength - 1)..MaxDescLen)
SweepDescriptions == {Absent, None} \cup {Str(n, "a") : n \in DescLens}

NameChoices ==
    {Absent, None, Integer(5)}
        \cup {Str(n, "a") : n \in {0, 1} \cup (NameMaxLength..MaxNameLen)}
DescriptionChoices ==
    {Absent, None} \cup {Str(n, "b") : n \in DescriptionMaxLength..MaxDescLen}
IsActiveChoices ==
    {Absent, None, Bool(TRUE), Bool(FALSE), Str(1, "a"), Str(1, "1")}
IdChoices == {Absent, Integer(1), Str(1, "a"), Str(1, "1")}
CreatedAtChoices == {Absent, Datetime(1)}
UpdatedAtChoices == {Absent, Datetime(2)}

ExtraKeys == {"extra_field", "nmae"}

\* Sequences of distinct unknown keys, at most MaxExtras of them.
ExtraChoices ==
    {ks \in UNION {[1..k -> ExtraKeys] : k \in 0..MaxExtras} :
        \A i, j \in 1..Len(ks) : i # j => ks[i] # ks[j]}

\* The item key: v of a dict literal, or nothing when the key is left out.
Item(key, v) == IF v = Absent THEN <<>> ELSE << <<key, v>> >>

Mapping(name, description, is_active, id, created_at, updated_at, extras) ==
    Item("name", name) \o Item("description", description)
        \o Item("is_active", is_active) \o Item("id", id)
        \o Item("created_at", created_at) \o Item("updated_at", updated_at)
        \o [i \in 1..Len(extras) |-> <<extras[i], Str(5, "a")>>]

Inputs ==
    {Mapping(n, d, Absent, Absent, Absent, Absent, <<>>) :
        n \in SweepNames, d \in SweepDescriptions}
    \cup
    {Mapping(n, d, a, i, c, u, x) :
        n \in NameChoices, d \in DescriptionChoices, a \in IsActiveChoices,
        i \in IdChoices, c \in CreatedAtChoices, u \in UpdatedAtChoices,
        x \in ExtraChoices}

\* An object whose attributes are the items of the mapping.
ObjectOf(m) == [k \in {m[i][1] : i \in 1..Len(m)} |-> DictGet(m, k)]

NoDump == << <<"", Absent>> >>

---------------------------------------------------------------------------
(* The state machine: one input, every operation applied to it once *)

Init ==
    /\ input \in Inputs
    /\ record = ObjectOf(input)
    /\ createResult = NoResult
    /\ updateResult = NoResult
    /\ readResult = NoResult
    /\ ormResult = NoResult
    /\ dumped = NoDump
    /\ reparsed = NoResult

ParseCreate ==
    /\ createResult.status = "none"
    /\ createResult' = ExampleCreate(input)
    /\ UNCHANGED <<input, record, updateResult, readResult, ormResult,
                   dumped, reparsed>>

ParseUpdate ==
    /\ updateResult.status = "none"
    /\ updateResult' = ExampleUpdate(input)
    /\ UNCHANGED <<input, record, createResult, readResult, ormResult,
                   dumped, reparsed>>

ParseRead ==
    /\ readResult.status = "none"
    /\ readResult' = ExampleRead(input)
    /\ UNCHANGED <<input, record, createResult, updateResult, ormResult,
                   dumped, reparsed>>

ParseReadFromObject ==
    /\ ormResult.status = "none"
    /\ ormResult' = ExampleReadModelValidate(record)
    /\ UNCHANGED <<input, record, createResult, updateResult, readResult,
                   dumped, reparsed>>

Serialize ==
    /\ createResult.status = "ok"
    /\ dumped = NoDump
    /\ dumped' = ModelDump(ExampleCreateFields, createResult.value)
    /\ UNCHANGED <<input, record, createResult, updateResult, readResult,
                   ormResult, reparsed>>

Reparse ==
    /\ dumped # NoDump
    /\ reparsed.status = "none"
    /\ reparsed' = ExampleCreate(dumped)
    /\ UNCHANGED <<input, record, createResult, updateResult, readResult,
                   ormResult, dumped>>

Next ==
    \/ ParseCreate
    \/ ParseUpdate
    \/ ParseRead
    \/ ParseReadFromObject
    \/ Serialize
    \/ Reparse

Spec == Init /\ [][Next]_vars

---------------------------------------------------------------------------
(* Vocabulary of the properties *)

EntityKeys == {"name", "description", "is_active"}
ReadKeys == EntityKeys \cup {"id", "created_at", "updated_at"}

InputKeys == {input[i][1] : i \in 1..Len(input)}
In(key) == DictGet(input, key)
Supplied(key) == key \in InputKeys

IsStr(v) == v.kind = "str"
IsBool(v) == v.kind = "bool"

\* The field names an error cites.
Cited(result) == {result.errors[i].loc : i \in 1..Len(result.errors)}

\* The input without its unknown keys.
KnownItems == SelectSeq(input, LAMBDA item : item[1] \in EntityKeys)

\* Position of a field in a schema's declaration, unknown keys last.
Position(fields, key) ==
    IF key \in FieldNames(fields)
    THEN CHOOSE i \in 1..Len(fields) : fields[i].name = key
    ELSE Len(fields) + 1

---------------------------------------------------------------------------
(* C1: for every string s with 1 <= len(s) <= 100, ExampleCreate(name=s)    *)
(* succeeds with name = s, description = None and is_active = True.        *)
C1_CreateNameOnly ==
    (/\ createResult.status # "none"
     /\ InputKeys = {"name"}
     /\ IsStr(In("name"))
     /\ In("name").n >= 1
     /\ In("name").n <= 100)
    => /\ createResult.status = "ok"
       /\ createResult.value["name"] = In("name")
       /\ createResult.value["description"] = None
       /\ createResult.value["is_active"] = Bool(TRUE)

C1_Witness ==
    /\ createResult.status = "ok"
    /\ InputKeys = {"name"}
    /\ In("name") = Str(100, "b")

(* The condition C2 puts on name and description. *)
NameAndDescriptionFit ==
    /\ Supplied("name")
    /\ In("name").n >= 1
    /\ In("name").n <= 100
    /\ (IsStr(In("description")) => In("description").n <= 500)

NameAndDescriptionAreStrings ==
    /\ Supplied("name") => IsStr(In("name"))
    /\ Supplied("description") =>
          (IsStr(In("description")) \/ In("description") = None)

(* C2 as stated: for every mapping whose name and description are strings  *)
(* (description possibly absent or None), ExampleCreate succeeds if and    *)
(* only if name is present with 1..100 characters and description is       *)
(* absent, None or at most 500 characters long.                            *)
C2_Original ==
    (createResult.status # "none" /\ NameAndDescriptionAreStrings)
    => (createResult.status = "ok" <=> NameAndDescriptionFit)

(* C2 amended: the same, for mappings whose is_active is absent or a       *)
(* boolean.                                                                *)
C2_CreateAcceptsIffLengthsFit ==
    (/\ createResult.status # "none"
     /\ NameAndDescriptionAreStrings
     /\ Supplied("is_active") => IsBool(In("is_active")))
    => (createResult.status = "ok" <=> NameAndDescriptionFit)

C2_Witness ==
    /\ createResult.status = "ok"
    /\ In("name") = Str(100, "a")
    /\ In("description") = Str(500, "b")
    /\ In("is_active") = Bool(FALSE)

(* C3: ExampleUpdate fails for every mapping with a key outside {name,     *)
(* description, is_active}, whatever the recognised fields hold, and the   *)
(* error cites every such key by its bare name; no model is built.         *)
C3_UpdateForbidsUnknownKeys ==
    (updateResult.status # "none" /\ InputKeys \ EntityKeys # {})
    => /\ updateResult.status = "error"
       /\ updateResult.value = NoValue
       /\ \A k \in InputKeys \ EntityKeys :
              \E i \in 1..Len(updateResult.errors) :
                  updateResult.errors[i] = ErrorEntry(k, "extra_forbidden")

C3_Witness ==
    /\ updateResult.status = "error"
    /\ InputKeys = {"name", "extra_field"}
    /\ In("name") = Str(1, "a")
    /\ Cited(updateResult) = {"extra_field"}

(* A value ExampleUpdate's field accepts. *)
UpdateValueFits(key) ==
    CASE key = "name" ->
            \/ In(key) = None
            \/ IsStr(In(key)) /\ In(key).n >= 1 /\ In(key).n <= 100
      [] key = "description" ->
            \/ In(key) = None
            \/ IsStr(In(key)) /\ In(key).n <= 500
      [] key = "is_active" -> In(key) = None \/ IsBool(In(key))

C5_ReadRequiresAllSix ==
    (readResult.status # "none" /\ ReadKeys \ InputKeys # {})
    => /\ readResult.status = "error"
       /\ ReadKeys \ InputKeys \subseteq Cited(readResult)

(* The fields of a schema whose own validation rejects what the source    *)
(* holds for them, and the unknown keys a closed schema rejects.           *)
InvalidFields(fields, config, src) ==
    {fields[i].name : i \in {j \in 1..Len(fields) :
        ValidateField(fields[j], Lookup(src, fields[j].name)).err # "ok"}}
    \cup (IF config.extra = "forbid" /\ src.kind = "dict"
          THEN {k \in InputKeys : k \notin FieldNames(fields)} ELSE {})

\* A failed parse: no model, one entry per invalid field and no other, the
\* declared fields in declaration order before the unknown keys.
ReportsAll(result, fields, config, src) ==
    result.status = "error"
    => /\ result.value = NoValue
       /\ Cited(result) = InvalidFields(fields, config, src)
       /\ Len(result.errors) = Cardinality(InvalidFields(fields, config, src))
       /\ \A i, j \in 1..Len(result.errors) :
              i < j => Position(fields, result.errors[i].loc)
                          <= Position(fields, result.errors[j].loc)

(* C6: a failed ExampleCreate, ExampleUpdate or ExampleRead raises one     *)
(* ValidationError with one entry for every invalid field, not only the    *)
(* first, in declaration order, and builds no model; an empty name with a  *)
(* 501-character description gives entries for name and for description.   *)
C6_AllViolationsReported ==
    /\ ReportsAll(createResult, ExampleCreateFields, ExampleCreateConfig,
                  FromDict(input))
    /\ ReportsAll(updateResult, ExampleUpdateFields, ExampleUpdateConfig,
                  FromDict(input))
    /\ ReportsAll(readResult, ExampleReadFields, ExampleReadConfig,
                  FromDict(input))
    /\ ReportsAll(ormResult, ExampleReadFields, ExampleReadConfig,
                  FromObject(record))
    /\ (/\ createResult.status # "none"
        /\ In("name") = Str(0, "a")
        /\ IsStr(In("description"))
        /\ In("description").n = 501)
       => /\ createResult.status = "error"
          /\ {"name", "description"} \subseteq Cited(createResult)
          /\ createResult.errors[1] = ErrorEntry("name", "string_too_short")
          /\ createResult.errors[2] = ErrorEntry("description", "string_too_long")

C6_Witness ==
    /\ createResult.status = "error"
    /\ In("name") = Str(0, "a")
    /\ In("description") = Str(501, "b")
    /\ Len(createResult.errors) >= 2

(* C7 as stated: ExampleRead.model_validate on an object exposing the six  *)
(* values as attributes ends as ExampleRead on the mapping with the same   *)
(* six keys: both succeed with equal models, every field equal to its      *)
(* input, or both fail with violations on the same fields.                 *)
C7_Original ==
    (readResult.status # "none" /\ ormResult.status # "none")
    => /\ ormResult.status = readResult.status
       /\ ormResult.value = readResult.value
       /\ Cited(ormResult) = Cited(readResult)
       /\ (ormResult.status = "ok" /\ ReadKeys \subseteq InputKeys)
          => \A k \in ReadKeys :
                 ormResult.value[k] = In(k) /\ ormResult.value[k] = record[k]

\* The input under key is of the type ExampleRead declares for it.
OfDeclaredType(key) ==
    CASE key = "name" -> In(key).kind = "str"
      [] key = "description" -> In(key).kind \in {"str", "none"}
      [] key = "is_active" -> In(key).kind = "bool"
      [] key = "id" -> In(key).kind = "int"
      [] key \in {"created_at", "updated_at"} -> In(key).kind = "datetime"

(* C7 amended: both succeed with equal models, or both fail with           *)
(* violations on the same fields; in the models every field whose input is *)
(* of the declared type equals its input, and an input that validation     *)
(* converts (id "1", is_active "1") appears converted, identically in both.*)
C7_ReadFromObjectAsFromMapping ==
    (readResult.status # "none" /\ ormResult.status # "none")
    => /\ ormResult.status = readResult.status
       /\ ormResult.value = readResult.value
       /\ ormResult.errors = readResult.errors
       /\ (ormResult.status = "ok" /\ ReadKeys \subseteq InputKeys)
          => \A k \in ReadKeys :
                 /\ OfDeclaredType(k)
                      => ormResult.value[k] = In(k) /\ ormResult.value[k] = record[k]
                 /\ (k = "id" /\ In(k) = Str(1, "1"))
                      => ormResult.value[k] = Integer(1)
                 /\ (k = "is_active" /\ In(k) = Str(1, "1"))
                      => ormResult.value[k] = Bool(TRUE)

C7_Witness ==
    /\ readResult.status = "ok"
    /\ ormResult.status = "ok"
    /\ ReadKeys \subseteq InputKeys
    /\ In("id") = Str(1, "1")
    /\ In("is_active") = Bool(FALSE)
    /\ ormResult.value["id"] = Integer(1)

(* C8: serializing the model of a valid Create input back to a mapping and *)
(* parsing that mapping succeeds with a model equal to the first one, also *)
(* when description and is_active were left out and took their defaults.   *)
C8_CreateRoundTrip ==
    reparsed.status # "none"
    => /\ reparsed.status = "ok"
       /\ reparsed.value = createResult.value
       /\ \A k \in EntityKeys : DictGet(dumped, k) = createResult.value[k]

C8_Witness ==
    /\ reparsed.status = "ok"
    /\ ~Supplied("description")
    /\ ~Supplied("is_active")
    /\ DictGet(dumped, "description") = None
    /\ DictGet(dumped, "is_active") = Bool(TRUE)

(* Inputs with all six fields, each of its declared type. *)
AllSixWellTyped ==
    /\ ReadKeys \subseteq InputKeys
    /\ IsStr(In("name"))
    /\ IsStr(In("description")) \/ In("description") = None
    /\ IsBool(In("is_active"))
    /\ In("id").kind = "int"
    /\ In("created_at").kind = "datetime"
    /\ In("updated_at").kind = "datetime"

LengthsFit ==
    /\ In("name").n >= 1
    /\ In("name").n <= 100
    /\ IsStr(In("description")) => In("description").n <= 500

(* C9 as stated: ExampleRead does not re-validate the lengths: an input    *)
(* with all six well-typed fields is not rejected for an empty name, a     *)
(* 101-character name or a 501-character description.                      *)
C9_Original ==
    (readResult.status # "none" /\ AllSixWellTyped)
    => readResult.status = "ok"

(* C9 amended: the length rules (name 1..100, description at most 500) are *)
(* enforced at construction for Create, Update and Read alike: an input    *)
(* with all six well-typed fields is accepted by ExampleRead exactly when  *)
(* the lengths fit, and a string name or description that breaks them is   *)
(* cited by each of the three schemas.                                     *)
C9_LengthsEnforcedEverywhere ==
    /\ (readResult.status # "none" /\ AllSixWellTyped)
       => /\ readResult.status = "ok" <=> LengthsFit
          /\ ~(In("name").n >= 1 /\ In("name").n <= 100)
               <=> "name" \in Cited(readResult)
          /\ (IsStr(In("description")) /\ In("description").n > 500)
               <=> "description" \in Cited(readResult)
    /\ \A r \in {createResult, updateResult, readResult} :
          r.status # "none"
          => /\ (IsStr(In("name")) /\ ~(In("name").n >= 1 /\ In("name").n <= 100))
                   => (r.status = "error" /\ "name" \in Cited(r))
             /\ (IsStr(In("description")) /\ In("description").n > 500)
                   => (r.status = "error" /\ "description" \in Cited(r))

C9_Witness ==
    /\ readResult.status = "error"
    /\ AllSixWellTyped
    /\ In("name") = Str(101, "a")
    /\ In("description") = Str(501, "b")
    /\ Cited(readResult) = {"name", "description"}

(* C10: when ExampleCreate accepts a mapping, it accepts the mapping       *)
(* extended with keys outside {name, description, is_active} too, with an  *)
(* equal model that stores none of them, and ExampleUpdate rejects the     *)
(* extended mapping.                                                       *)
C10_CreateIgnoresUpdateForbids ==
    (/\ InputKeys \ EntityKeys # {}
     /\ ExampleCreate(KnownItems).status = "ok")
    => /\ createResult.status # "none"
          => /\ createResult.status = "ok"
             /\ createResult.value = ExampleCreate(KnownItems).value
             /\ DOMAIN createResult.value = EntityKeys
       /\ updateResult.status # "none" => updateResult.status = "error"

C10_Witness ==
    /\ createResult.status = "ok"
    /\ updateResult.status = "error"
    /\ "extra_field" \in InputKeys
    /\ In("name") = Str(1, "a")

====
